---- MODULE Spec2Model ----
(***************************************************************************)
(* Signal pipelines of cyber-cognito-learn: the EEG simulator (animation-  *)
(* frame variant and dataset-replay variant), the camera emotion analyzers *)
(* and the microphone analyzer.                                            *)
(*                                                                         *)
(* One component instance is mounted per behaviour (variable `mounted`);   *)
(* the variables of the other components keep their initial values.        *)
(*                                                                         *)
(* React scheduling, as the handlers rely on it (React 18, createRoot):    *)
(*  - a state update made in a click handler is rendered, and the effects  *)
(*    of that render are flushed, before any timer, animation frame or     *)
(*    promise continuation runs: a click handler and the effect re-run it  *)
(*    causes are one step;                                                 *)
(*  - a state update made in a timer callback or in the continuation of an *)
(*    await is rendered in a later task, and the effects of that render    *)
(*    run later still: timers registered by the previous effect run may    *)
(*    fire in between, with the values their closure captured.             *)
(***************************************************************************)
EXTENDS Integers, Sequences, FiniteSets, TLC

VARIABLES
    mounted,            \* which component this behaviour runs
    op,                 \* name of the last handler that ran (history)
    \* ---- EEG simulator (both variants)
    isRunning,
    eegData,
    brainState,
    dataBuffers,
    produced,           \* history: samples pushed since the buffers were last empty
    \* ---- EEG simulator, animation-frame variant
    animationFrameId,   \* "null" | "pending" | "stale" (id of a frame already run or cancelled)
    animBase,           \* eegData captured by the closure of animate
    \* ---- EEG simulator, dataset variant
    uploadedDataset,    \* sequence of rows; <<>> is null
    mode,
    datasetIndex,
    uploadStatus,
    fileRead,           \* TRUE while handleFileUpload awaits file.text()
    interval,           \* TRUE while the timer of the last effect run is registered
    closure,            \* mode, uploadedDataset, datasetIndex, eegData that timer's callback captured
    effectPending,      \* a render changed the effect's dependencies and the effect has not re-run
    replayTicks,        \* history: ticks completed in dataset mode since the cursor was last set to 0
    \* ---- camera and microphone analyzers
    isActive,
    emotion,
    engagement,
    attention,
    notified,           \* history: number of onEmotionChange invocations
    failureToasts,      \* history: number of toasts raised with variant 'destructive'
    streamRef,          \* 0 is null, else the id of the stream
    liveStreams,        \* acquired streams whose tracks have not been stopped
    nextStream,         \* getUserMedia calls made so far (the next stream's id - 1)
    starts,             \* start calls suspended in an await: [id, phase, ai]
    session,            \* history: number of stop operations so far
    \* ---- camera analyzer with detectFacialEmotion
    useAI,
    facialModel,        \* TRUE when the hook's facialModel is not null
    audioModel,
    isLoading,
    metadataHandler,    \* id of the start call whose onloadedmetadata handler is installed
    analysisIntervalRef,\* TRUE when the ref holds a registered interval
    camEffectPending,   \* [useAI, modelsReady, isActive] changed outside a click, effect not re-run
    pending,            \* detectFacialEmotion calls not yet resolved: [id, session]
    nextCall,
    \* ---- camera analyzer with startEmotionSimulation
    videoMounted,       \* the <video> element is in the DOM (committed isActive)
    simIntervals,       \* intervals registered by startEmotionSimulation (never cleared)
    \* ---- microphone analyzer
    isRecording,
    confidence,
    tone,
    mediaRecorderRef,   \* 0 is null, else the recorder's id
    recording,          \* recorders whose state is 'recording'
    micIntervals,       \* recorders whose analysisInterval is registered
    stopEvents,         \* recorders with a queued stop event
    \* ---- classification harness
    sample,
    labels,
    generated           \* what the two generators returned for base values `sample`

eegVars == <<isRunning, eegData, brainState, dataBuffers, produced>>
animVars == <<animationFrameId, animBase>>
dsVars == <<uploadedDataset, mode, datasetIndex, uploadStatus, fileRead, interval,
            closure, effectPending, replayTicks>>
readVars == <<isActive, emotion, engagement, attention, notified>>
mediaVars == <<streamRef, liveStreams, nextStream, starts, session>>
aiVars == <<useAI, facialModel, audioModel, isLoading, metadataHandler, analysisIntervalRef,
            camEffectPending, pending, nextCall>>
simVars == <<videoMounted, simIntervals>>
micVars == <<isRecording, confidence, tone, mediaRecorderRef, recording, micIntervals, stopEvents>>
camVars == <<readVars, mediaVars, aiVars, simVars, micVars, failureToasts>>
ruleVars == <<sample, labels, generated>>
vars == <<mounted, op, eegVars, animVars, dsVars, camVars, ruleVars>>

(***************************************************************************)
(* Bounds of the model                                                     *)
(***************************************************************************)
\* ticks that push a sample between two moments at which the buffers are empty
MaxTicks == 5
\* capacity of a channel buffer of the animation-frame variant; the source's
\* value is 200 (EEGSimulator.tsx:143), scaled so that eviction is reached
maxBufferLength == 3
\* getUserMedia calls per behaviour
MaxStreams == 2
\* detectFacialEmotion calls per behaviour
MaxCalls == 2
\* ticks of the dataset variant (its buffers are never emptied)
MaxReplayTicks == 3
\* capacity of a channel buffer of the dataset variant; the source's value is
\* 800 (part_000:213), scaled so that eviction is reached
datasetBufferLength == 2

Channels == {"attention", "relaxation", "drowsiness", "engagement"}

Max2(a, b) == IF a >= b THEN a ELSE b
Min2(a, b) == IF a <= b THEN a ELSE b

\* a JavaScript value that is not a number (undefined, NaN): it compares false
\* with every threshold and arithmetic on it yields it again
NotANumber == 0 - 1000

IsNumber(v) == v # NotANumber

DefaultEEG ==
    [attention |-> 50, relaxation |-> 50, drowsiness |-> 20, engagement |-> 50]

EmptyBuffers == [ch \in Channels |-> <<>>]

(***************************************************************************)
(* determineBrainState, animation-frame variant                            *)
(***************************************************************************)
DetermineDrowsyAtBoundary(data) ==
    IF data.drowsiness >= 70 THEN "Drowsy"
    ELSE IF data.attention > 70 THEN "Highly Focused"
    ELSE IF data.relaxation > 70 THEN "Relaxed"
    ELSE IF data.engagement > 70 THEN "Engaged"
    ELSE IF data.attention > 50 THEN "Focused"
    ELSE IF data.relaxation > 50 THEN "Calm"
    ELSE "Neutral"

DetermineAttentionFirst(data) ==
    IF data.attention > 70 THEN "Highly Focused"
    ELSE IF data.drowsiness > 70 THEN "Drowsy"
    ELSE IF data.relaxation > 70 THEN "Relaxed"
    ELSE IF data.engagement > 70 THEN "Engaged"
    ELSE IF data.attention > 50 THEN "Focused"
    ELSE IF data.relaxation > 50 THEN "Calm"
    ELSE "Neutral"

determineBrainState(data) ==
    IF data.drowsiness > 70 THEN "Drowsy"
    ELSE IF data.attention > 70 THEN "Highly Focused"
    ELSE IF data.relaxation > 70 THEN "Relaxed"
    ELSE IF data.engagement > 70 THEN "Engaged"
    ELSE IF data.attention > 50 THEN "Focused"
    ELSE IF data.relaxation > 50 THEN "Calm"
    ELSE "Neutral"

(***************************************************************************)
(* determineBrainState, dataset variant                                    *)
(***************************************************************************)
determineBrainStateDataset(data) ==
    IF data.attention > 70 THEN "Highly Focused"
    ELSE IF data.relaxation > 70 THEN "Deeply Relaxed"
    ELSE IF data.drowsiness > 60 THEN "Drowsy"
    ELSE IF data.engagement > 70 THEN "Engaged"
    ELSE IF data.attention > 50 /\ data.engagement > 50 THEN "Active Learning"
    ELSE "Neutral"

(***************************************************************************)
(* generateEEGValue: Math.sin(time * frequency) * 10, Math.sin(time * 0.05)*)
(* * 20 and (Math.random() - 0.5) * 15 are the inputs wave, slowWave and   *)
(* noise, over integers                                                    *)
(***************************************************************************)
GenerateUnclamped(baseValue, wave, slowWave, noise) == baseValue + wave + slowWave + noise

generateEEGValue(baseValue, wave, slowWave, noise) ==
    Max2(0, Min2(100, baseValue + wave + slowWave + noise))

\* what one call of animate draws: slowWave is shared by the four channels
\* (same time), wave and noise are per channel
AnimInputs ==
    { [slowWave |-> 20,  wave |-> [ch \in Channels |-> 10],  noise |-> [ch \in Channels |-> 7]],
      [slowWave |-> -20, wave |-> [ch \in Channels |-> -10], noise |-> [ch \in Channels |-> -7]],
      [slowWave |-> 0,
       wave |-> [ch \in Channels |-> IF ch = "attention" THEN 10 ELSE -10],
       noise |-> [ch \in Channels |-> 0]] }

\* newData of animate
AnimNewData(base, in) ==
    [ch \in Channels |-> generateEEGValue(base[ch], in.wave[ch], in.slowWave, in.noise[ch])]

(***************************************************************************)
(* push, then shift when the buffer is longer than its capacity            *)
(***************************************************************************)
PushNoShift(buffer, value, capacity) == Append(buffer, value)

PushDropNewest(buffer, value, capacity) ==
    LET pushed == Append(buffer, value)
    IN  IF Len(pushed) > capacity THEN SubSeq(pushed, 1, capacity) ELSE pushed

PushShift(buffer, value, capacity) ==
    LET pushed == Append(buffer, value)
    IN  IF Len(pushed) > capacity THEN Tail(pushed) ELSE pushed

UpdateAllButDrowsiness(buffers, newData, capacity) ==
    [ch \in Channels |-> IF ch = "drowsiness" THEN buffers[ch]
                         ELSE PushShift(buffers[ch], newData[ch], capacity)]

UpdateBuffers(buffers, newData, capacity) ==
    [ch \in Channels |-> PushShift(buffers[ch], newData[ch], capacity)]

(***************************************************************************)
(* Animation-frame variant: src/src/components/EEGSimulator.tsx            *)
(***************************************************************************)
AnimateLabelsBase(base, in) ==
    LET newData == AnimNewData(base, in)
    IN  /\ dataBuffers' = UpdateBuffers(dataBuffers, newData, maxBufferLength)
        /\ produced' = Append(produced, newData)
        /\ eegData' = newData
        /\ brainState' = determineBrainState(base)
        /\ animationFrameId' = "pending"

\* the body of animate: one tick
AnimateBody(base, in) ==
    LET newData == AnimNewData(base, in)
    IN  /\ dataBuffers' = UpdateBuffers(dataBuffers, newData, maxBufferLength)
        /\ produced' = Append(produced, newData)
        /\ eegData' = newData
        /\ brainState' = determineBrainState(newData)
        /\ animationFrameId' = "pending"

\* cleanup of the animation effect, then its body with isRunning false
KeepFrame == animationFrameId

CancelFrame == IF animationFrameId = "null" THEN "null" ELSE "stale"

\* toggleSimulation while stopped: the effect runs animate() once at once
ToggleSimulationOn ==
    /\ mounted = "EEGSimulator"
    /\ ~isRunning
    /\ Len(produced) < MaxTicks
    /\ isRunning' = TRUE
    /\ animBase' = eegData
    /\ \E in \in AnimInputs : AnimateBody(eegData, in)
    /\ op' = "toggleSimulation"
    /\ UNCHANGED <<mounted, dsVars, camVars, ruleVars>>

ToggleOffClears ==
    /\ mounted = "EEGSimulator"
    /\ isRunning
    /\ isRunning' = FALSE
    /\ animationFrameId' = CancelFrame
    /\ eegData' = DefaultEEG
    /\ brainState' = "Neutral"
    /\ op' = "toggleSimulation"
    /\ UNCHANGED <<mounted, dataBuffers, produced, animBase, dsVars, camVars, ruleVars>>

\* toggleSimulation while running: the effect cleanup cancels the frame
ToggleSimulationOff ==
    /\ mounted = "EEGSimulator"
    /\ isRunning
    /\ isRunning' = FALSE
    /\ animationFrameId' = CancelFrame
    /\ op' = "toggleSimulation"
    /\ UNCHANGED <<mounted, eegData, brainState, dataBuffers, produced, animBase, dsVars, camVars, ruleVars>>

\* the requested animation frame fires
Animate ==
    /\ mounted = "EEGSimulator"
    /\ animationFrameId = "pending"
    /\ Len(produced) < MaxTicks
    /\ \E in \in AnimInputs : AnimateBody(animBase, in)
    /\ op' = "animate"
    /\ UNCHANGED <<mounted, isRunning, animBase, dsVars, camVars, ruleVars>>

ResetWithoutStop ==
    /\ mounted = "EEGSimulator"
    /\ dataBuffers' = EmptyBuffers
    /\ produced' = <<>>
    /\ eegData' = DefaultEEG
    /\ brainState' = "Neutral"
    /\ op' = "resetSimulation"
    /\ UNCHANGED <<mounted, isRunning, animVars, dsVars, camVars, ruleVars>>

\* the history value of op after resetSimulation: a call that directly
\* follows another one is told apart
ResetOp == IF op \in {"resetSimulation", "resetSimulation again"}
           THEN "resetSimulation again" ELSE "resetSimulation"

ResetLabelsOldSample ==
    /\ mounted = "EEGSimulator"
    /\ isRunning' = FALSE
    /\ dataBuffers' = EmptyBuffers
    /\ produced' = <<>>
    /\ eegData' = DefaultEEG
    /\ brainState' = determineBrainState(eegData)
    /\ animationFrameId' = IF isRunning THEN CancelFrame ELSE animationFrameId
    /\ op' = ResetOp
    /\ UNCHANGED <<mounted, animBase, dsVars, camVars, ruleVars>>

\* resetSimulation; when it was running the effect cleanup cancels the frame
resetSimulation ==
    /\ mounted = "EEGSimulator"
    /\ isRunning' = FALSE
    /\ dataBuffers' = EmptyBuffers
    /\ produced' = <<>>
    /\ eegData' = DefaultEEG
    /\ brainState' = "Neutral"
    /\ animationFrameId' = IF isRunning THEN CancelFrame ELSE animationFrameId
    /\ op' = ResetOp
    /\ UNCHANGED <<mounted, animBase, dsVars, camVars, ruleVars>>

(***************************************************************************)
(* Dataset variant: src/unnamed/part_000                                   *)
(***************************************************************************)
\* a decoded row is a function from the channels it has a number for
Row(a, r, d, e) == [attention |-> a, relaxation |-> r, drowsiness |-> d, engagement |-> e]

\* the uploaded documents: what text() and the decoding of the lines yield
Files ==
    { [kind |-> "csv",
       rows |-> << Row(80, 40, 10, 60), [attention |-> 10, relaxation |-> 10],
                   Row(120, 30, 65, 30) >>,
       throws |-> FALSE],
      [kind |-> "json",
       rows |-> << [attention |-> 10, relaxation |-> 10] >>,
       throws |-> FALSE],
      [kind |-> "csv", rows |-> << [attention |-> 10, relaxation |-> 10] >>, throws |-> FALSE],
      [kind |-> "json", rows |-> <<>>, throws |-> TRUE] }

\* the CSV branch keeps a row when all four channels are defined
HasAllChannels(row) == Channels \subseteq DOMAIN row

\* parsedData of handleFileUpload
ParsedData(file) ==
    IF file.kind = "csv"
    THEN LET keep[i \in 0..Len(file.rows)] ==
                 IF i = 0 THEN <<>>
                 ELSE IF HasAllChannels(file.rows[i])
                      THEN Append(keep[i - 1], [ch \in Channels |-> file.rows[i][ch]])
                      ELSE keep[i - 1]
         IN  keep[Len(file.rows)]
    ELSE file.rows

\* (Math.random() - 0.5) * variation, variation = 10, per channel
RandomInputs == { [ch \in Channels |-> 5], [ch \in Channels |-> -5] }

generateRandomEEG(data, noise) ==
    [ch \in Channels |->
        IF IsNumber(data[ch]) THEN Max2(0, Min2(100, data[ch] + noise[ch])) ELSE NotANumber]

\* what the effect's closure captures from the render it runs in
Captured(m, ds, idx, data) ==
    [mode |-> m, uploadedDataset |-> ds, datasetIndex |-> idx, eegData |-> data]

\* newData of the dataset branch: the four properties read from dataPoint
DatasetNewData(dataPoint) ==
    [ch \in Channels |-> IF ch \in DOMAIN dataPoint THEN dataPoint[ch] ELSE NotANumber]

\* cursor after a tick: the functional update of setDatasetIndex
NextIndexNoWrap(prevIndex, length) == prevIndex + 1

NextIndex(prevIndex, length) == (prevIndex + 1) % length

\* the input change event: setFileName, setUploadStatus('Uploading...'), await file.text()
HandleFileUploadBegin ==
    /\ mounted = "EEGDataset"
    /\ ~fileRead
    /\ fileRead' = TRUE
    /\ uploadStatus' = "Uploading..."
    /\ op' = "handleFileUpload"
    /\ UNCHANGED <<mounted, eegVars, animVars, uploadedDataset, mode, datasetIndex, interval,
                   closure, effectPending, replayTicks, camVars, ruleVars>>

UploadFailedResets(status) ==
    /\ uploadStatus' = status
    /\ uploadedDataset' = <<>>
    /\ mode' = "simulated"
    /\ datasetIndex' = 0
    /\ effectPending' = TRUE
    /\ UNCHANGED replayTicks

\* the else branch and the catch branch: only the status is set
UploadFailed(status) ==
    /\ uploadStatus' = status
    /\ UNCHANGED <<uploadedDataset, mode, datasetIndex, effectPending, replayTicks>>

\* the continuation of await file.text(), for the file that was chosen
HandleFileUploadDone ==
    /\ mounted = "EEGDataset"
    /\ fileRead
    /\ fileRead' = FALSE
    /\ \E file \in Files :
        IF file.throws
        THEN UploadFailed("Error parsing file")
        ELSE LET parsedData == ParsedData(file)
             IN  IF Len(parsedData) > 0
                 THEN /\ uploadedDataset' = parsedData
                      /\ uploadStatus' = "Loaded"
                      /\ mode' = "dataset"
                      /\ datasetIndex' = 0
                      /\ replayTicks' = 0
                      /\ effectPending' = TRUE
                 ELSE UploadFailed("Invalid data format")
    /\ op' = "handleFileUpload"
    /\ UNCHANGED <<mounted, eegVars, animVars, interval, closure, camVars, ruleVars>>

\* a click: rendered and its effects flushed at once
toggleMode ==
    /\ mounted = "EEGDataset"
    /\ Len(uploadedDataset) > 0
    /\ mode' = IF mode = "simulated" THEN "dataset" ELSE "simulated"
    /\ datasetIndex' = 0
    /\ replayTicks' = 0
    /\ closure' = Captured(mode', uploadedDataset, 0, eegData)
    /\ interval' = isRunning
    /\ effectPending' = FALSE
    /\ op' = "toggleMode"
    /\ UNCHANGED <<mounted, eegVars, animVars, uploadedDataset, uploadStatus, fileRead, camVars,
                   ruleVars>>

\* the Start/Stop button: setIsRunning(!isRunning)
ToggleRunning ==
    /\ mounted = "EEGDataset"
    /\ isRunning' = ~isRunning
    /\ closure' = Captured(mode, uploadedDataset, datasetIndex, eegData)
    /\ interval' = isRunning'
    /\ effectPending' = FALSE
    /\ op' = "setIsRunning"
    /\ UNCHANGED <<mounted, eegData, brainState, dataBuffers, produced, animVars,
                   uploadedDataset, mode, datasetIndex, uploadStatus, fileRead, replayTicks,
                   camVars, ruleVars>>

\* the effect re-runs after a render made outside a click: clearInterval, setInterval
EffectFlush ==
    /\ mounted = "EEGDataset"
    /\ effectPending
    /\ effectPending' = FALSE
    /\ closure' = Captured(mode, uploadedDataset, datasetIndex, eegData)
    /\ interval' = isRunning
    /\ op' = "useEffect"
    /\ UNCHANGED <<mounted, eegVars, animVars, uploadedDataset, mode, datasetIndex, uploadStatus,
                   fileRead, replayTicks, camVars, ruleVars>>

\* the tick after newData is known: setEegData, setBrainState, the buffers
TickState(newData) ==
    /\ eegData' = newData
    /\ brainState' = determineBrainStateDataset(newData)
    /\ dataBuffers' = UpdateBuffers(dataBuffers, newData, datasetBufferLength)
    /\ effectPending' = TRUE

\* the tick together with the history of what it produced
IntervalBody(newData) ==
    /\ TickState(newData)
    /\ produced' = Append(produced, newData)
    /\ replayTicks' = IF mode = "dataset" THEN replayTicks + 1 ELSE replayTicks

\* the interval fires and reads the dataset its closure captured
IntervalTickDataset ==
    /\ mounted = "EEGDataset"
    /\ interval
    /\ Len(produced) < MaxReplayTicks
    /\ closure.mode = "dataset" /\ Len(closure.uploadedDataset) > 0
    /\ closure.datasetIndex < Len(closure.uploadedDataset)
    /\ IntervalBody(DatasetNewData(closure.uploadedDataset[closure.datasetIndex + 1]))
    /\ datasetIndex' = NextIndex(datasetIndex, Len(closure.uploadedDataset))
    /\ op' = "interval"
    /\ UNCHANGED <<mounted, isRunning, animVars, uploadedDataset, mode, uploadStatus, fileRead,
                   interval, closure, camVars, ruleVars>>

\* uploadedDataset[datasetIndex] is undefined: reading dataPoint.attention throws
IntervalTickThrows ==
    /\ mounted = "EEGDataset"
    /\ interval
    /\ closure.mode = "dataset" /\ Len(closure.uploadedDataset) > 0
    /\ closure.datasetIndex >= Len(closure.uploadedDataset)
    /\ op' = IF op = "interval throws" THEN "interval throws again" ELSE "interval throws"
    /\ UNCHANGED <<mounted, eegVars, animVars, dsVars, camVars, ruleVars>>

\* the interval fires in simulated mode
IntervalTickSimulated ==
    /\ mounted = "EEGDataset"
    /\ interval
    /\ Len(produced) < MaxReplayTicks
    /\ ~(closure.mode = "dataset" /\ Len(closure.uploadedDataset) > 0)
    /\ \E noise \in RandomInputs : IntervalBody(generateRandomEEG(closure.eegData, noise))
    /\ op' = "interval"
    /\ UNCHANGED <<mounted, isRunning, animVars, uploadedDataset, mode, datasetIndex,
                   uploadStatus, fileRead, interval, closure, camVars, ruleVars>>

(***************************************************************************)
(* useEmotionDetection: src/unnamed/part_004                               *)
(***************************************************************************)
nonCamVars == <<mounted, eegVars, animVars, dsVars, ruleVars>>

modelsReady == facialModel /\ audioModel

EngagementMap(label) ==
    CASE label = "happy" -> 85 [] label = "surprised" -> 90 [] label = "angry" -> 75
      [] label = "neutral" -> 70 [] label = "sad" -> 50 [] label = "fearful" -> 60
      [] OTHER -> 70

AttentionMap(label) ==
    CASE label = "happy" -> 80 [] label = "surprised" -> 95 [] label = "angry" -> 85
      [] label = "neutral" -> 75 [] label = "sad" -> 60 [] label = "fearful" -> 70
      [] OTHER -> 75

Reading(e, g, a) == [emotion |-> e, engagement |-> g, attention |-> a]

\* what the model call yields: the top label, or "throws"
DetectOutcomes == {"happy", "sad", "throws"}
\* what the simulated branch draws with Math.random()
FallbackDraws == { Reading("fearful", 70, 80), Reading("surprised", 99, 99) }

\* stands for a rejected promise: awaiting it throws into the caller's catch
Rejection == Reading("rejection", 0, 0)

DetectPropagates(hasModel, outcome, draw) ==
    IF ~hasModel THEN draw
    ELSE IF outcome = "throws" THEN Rejection
    ELSE Reading(outcome, EngagementMap(outcome), AttentionMap(outcome))

detectFacialEmotion(hasModel, outcome, draw) ==
    IF ~hasModel THEN draw
    ELSE IF outcome = "throws" THEN Reading("neutral", 70, 75)
    ELSE Reading(outcome, EngagementMap(outcome), AttentionMap(outcome))

\* initModels ends: both pipelines loaded (WebGPU or CPU), or both attempts failed
InitModelsDone ==
    /\ mounted \in {"CameraAI", "CameraHybrid"}
    /\ isLoading
    /\ isLoading' = FALSE
    /\ \E facial \in BOOLEAN, audio \in BOOLEAN :
        /\ audio => facial
        /\ facialModel' = facial
        /\ audioModel' = audio
        /\ camEffectPending' = (camEffectPending \/ (audio /\ mounted = "CameraAI"))
        /\ failureToasts' = IF audio THEN failureToasts ELSE failureToasts + 1
    /\ op' = "initModels"
    /\ UNCHANGED <<nonCamVars, readVars, mediaVars, simVars, micVars, useAI, metadataHandler,
                   analysisIntervalRef, pending, nextCall>>

(***************************************************************************)
(* Camera analyzer with AI detection:                                      *)
(* src/src/components/CameraEmotionAnalyzer.tsx, lines 202-509             *)
(***************************************************************************)
\* toggleCamera while inactive: startCamera up to await getUserMedia
StartCamera ==
    /\ mounted = "CameraAI"
    /\ ~isLoading
    /\ ~isActive
    /\ nextStream < MaxStreams
    /\ nextStream' = nextStream + 1
    /\ starts' = starts \cup {[id |-> nextStream + 1, phase |-> "getUserMedia",
                               ai |-> (useAI /\ modelsReady)]}
    /\ op' = "startCamera"
    /\ UNCHANGED <<nonCamVars, failureToasts, readVars, streamRef, liveStreams, session, aiVars, simVars,
                   micVars>>

\* getUserMedia resolves: streamRef.current = stream, srcObject, await loadedmetadata
GetUserMediaResolve(s) ==
    /\ mounted = "CameraAI"
    /\ s \in starts /\ s.phase = "getUserMedia"
    /\ streamRef' = s.id
    /\ liveStreams' = liveStreams \cup {s.id}
    /\ metadataHandler' = s.id
    /\ starts' = (starts \ {s}) \cup {[s EXCEPT !.phase = "loadedmetadata"]}
    /\ op' = "startCamera"
    /\ UNCHANGED <<nonCamVars, failureToasts, readVars, nextStream, session, useAI, facialModel, audioModel,
                   isLoading, analysisIntervalRef, camEffectPending, pending, nextCall,
                   simVars, micVars>>

\* getUserMedia rejects: the catch branch raises the toast
RejectSilently(s) ==
    /\ mounted \in {"CameraAI", "CameraHybrid", "CameraSim", "Microphone"}
    /\ s \in starts /\ s.phase = "getUserMedia"
    /\ starts' = starts \ {s}
    /\ op' = "getUserMedia rejected"
    /\ UNCHANGED <<nonCamVars, failureToasts, readVars, streamRef, liveStreams, nextStream,
                   session, aiVars, simVars, micVars>>

GetUserMediaReject(s) ==
    /\ mounted \in {"CameraAI", "CameraHybrid", "CameraSim", "Microphone"}
    /\ s \in starts /\ s.phase = "getUserMedia"
    /\ starts' = starts \ {s}
    /\ failureToasts' = failureToasts + 1
    /\ op' = "getUserMedia rejected"
    /\ UNCHANGED <<nonCamVars, readVars, streamRef, liveStreams, nextStream, session, aiVars,
                   simVars, micVars>>

\* onloadedmetadata of the installed handler: setIsActive(true), startEmotionDetection
LoadedMetadata(s) ==
    /\ mounted = "CameraAI"
    /\ s \in starts /\ s.phase = "loadedmetadata"
    /\ metadataHandler = s.id /\ streamRef = s.id
    /\ starts' = starts \ {s}
    /\ isActive' = TRUE
    /\ analysisIntervalRef' = (analysisIntervalRef \/ s.ai)
    /\ camEffectPending' = (camEffectPending \/ ~isActive)
    /\ op' = "startCamera"
    /\ UNCHANGED <<nonCamVars, failureToasts, emotion, engagement, attention, notified, streamRef, liveStreams,
                   nextStream, session, useAI, facialModel, audioModel, isLoading,
                   metadataHandler, pending, nextCall, simVars, micVars>>

\* the effect on [useAI, modelsReady, isActive]
DetectionEffect(active, ai, ready) == active /\ ai /\ ready

CamEffectFlush ==
    /\ mounted = "CameraAI"
    /\ camEffectPending
    /\ camEffectPending' = FALSE
    /\ analysisIntervalRef' = DetectionEffect(isActive, useAI, modelsReady)
    /\ op' = "useEffect"
    /\ UNCHANGED <<nonCamVars, failureToasts, readVars, mediaVars, useAI, facialModel, audioModel, isLoading,
                   metadataHandler, pending, nextCall, simVars, micVars>>

\* toggleCamera while active
stopCamera ==
    /\ mounted = "CameraAI"
    /\ ~isLoading
    /\ isActive
    /\ analysisIntervalRef' = FALSE
    /\ liveStreams' = liveStreams \ {streamRef}
    /\ streamRef' = 0
    /\ isActive' = FALSE
    /\ emotion' = "neutral"
    /\ engagement' = 0
    /\ attention' = 0
    /\ session' = session + 1
    /\ camEffectPending' = FALSE
    /\ op' = "stopCamera"
    /\ UNCHANGED <<nonCamVars, failureToasts, notified, nextStream, starts, useAI, facialModel, audioModel,
                   isLoading, metadataHandler, pending, nextCall, simVars, micVars>>

\* the AI switch, enabled when the models are ready
SetUseAI ==
    /\ mounted = "CameraAI"
    /\ modelsReady /\ ~isLoading
    /\ useAI' = ~useAI
    /\ analysisIntervalRef' = DetectionEffect(isActive, useAI', modelsReady)
    /\ camEffectPending' = FALSE
    /\ op' = "setUseAI"
    /\ UNCHANGED <<nonCamVars, failureToasts, readVars, mediaVars, facialModel, audioModel, isLoading,
                   metadataHandler, pending, nextCall, simVars, micVars>>

\* may the interval callback issue a call while others are unresolved?
IssueOnlyWhenIdle(unresolved) == unresolved = {}

IssueAllowed(unresolved) == TRUE

\* the interval of startEmotionDetection fires: await detectFacialEmotion(video)
DetectionTick ==
    /\ mounted = "CameraAI"
    /\ analysisIntervalRef
    /\ nextCall < MaxCalls
    /\ IssueAllowed(pending)
    /\ nextCall' = nextCall + 1
    /\ pending' = pending \cup {[id |-> nextCall + 1, session |-> session]}
    /\ op' = "detection tick"
    /\ UNCHANGED <<nonCamVars, failureToasts, readVars, mediaVars, useAI, facialModel, audioModel, isLoading,
                   metadataHandler, analysisIntervalRef, camEffectPending, simVars, micVars>>

\* is the result of call c applied when it resolves?
ApplyIfSameSession(c, now) == c.session = now

ApplyResult(c, now) == TRUE

\* the awaited call resolves: the rest of the interval callback
DetectionResolve(c) ==
    /\ mounted = "CameraAI"
    /\ c \in pending
    /\ pending' = pending \ {c}
    /\ \E outcome \in DetectOutcomes, draw \in FallbackDraws :
        LET result == detectFacialEmotion(facialModel, outcome, draw)
        IN  /\ IF ApplyResult(c, session) /\ result # Rejection
               THEN /\ emotion' = result.emotion
                    /\ engagement' = result.engagement
                    /\ attention' = result.attention
                    /\ notified' = notified + 1
               ELSE UNCHANGED <<emotion, engagement, attention, notified>>
            /\ op' = IF result = Rejection THEN "detection error" ELSE "detection result"
    /\ UNCHANGED <<nonCamVars, failureToasts, isActive, mediaVars, useAI, facialModel, audioModel, isLoading,
                   metadataHandler, analysisIntervalRef, camEffectPending, nextCall, simVars,
                   micVars>>

(***************************************************************************)
(* Camera analyzer with simulated detection:                               *)
(* src/src/components/CameraEmotionAnalyzer.tsx, lines 8-163               *)
(***************************************************************************)
\* what one simulation tick draws with Math.random()
SimulationDraws == { Reading("focused", 70, 80), Reading("curious", 99, 99) }

\* the button shows Start while the committed isActive is false
SimStartCamera ==
    /\ mounted = "CameraSim"
    /\ ~videoMounted
    /\ nextStream < MaxStreams
    /\ nextStream' = nextStream + 1
    /\ starts' = starts \cup {[id |-> nextStream + 1, phase |-> "getUserMedia", ai |-> FALSE]}
    /\ op' = "startCamera"
    /\ UNCHANGED <<nonCamVars, failureToasts, readVars, streamRef, liveStreams, session, aiVars, simVars,
                   micVars>>

\* getUserMedia resolves: the ref is set only when the <video> element exists;
\* setIsActive(true); startEmotionSimulation() registers an interval
SimGetUserMediaResolve(s) ==
    /\ mounted = "CameraSim"
    /\ s \in starts /\ s.phase = "getUserMedia"
    /\ starts' = starts \ {s}
    /\ liveStreams' = liveStreams \cup {s.id}
    /\ streamRef' = IF videoMounted THEN s.id ELSE streamRef
    /\ isActive' = TRUE
    /\ simIntervals' = simIntervals + 1
    /\ op' = "startCamera"
    /\ UNCHANGED <<nonCamVars, failureToasts, emotion, engagement, attention, notified, nextStream, session,
                   aiVars, videoMounted, micVars>>

\* the render scheduled by an update made after an await commits
SimRender ==
    /\ mounted = "CameraSim"
    /\ videoMounted # isActive
    /\ videoMounted' = isActive
    /\ op' = "render"
    /\ UNCHANGED <<nonCamVars, failureToasts, readVars, mediaVars, aiVars, simIntervals, micVars>>

\* the button shows Stop while the committed isActive is true
SimStopCamera ==
    /\ mounted = "CameraSim"
    /\ videoMounted
    /\ liveStreams' = liveStreams \ {streamRef}
    /\ streamRef' = 0
    /\ isActive' = FALSE
    /\ emotion' = "neutral"
    /\ engagement' = 0
    /\ attention' = 0
    /\ videoMounted' = FALSE
    /\ session' = session + 1
    /\ op' = "stopCamera"
    /\ UNCHANGED <<nonCamVars, failureToasts, notified, nextStream, starts, aiVars, simIntervals, micVars>>

\* does an interval callback update the readings?
SimTickUnguarded(ref) == TRUE

SimTickApplies(ref) == ref # 0

\* an interval of startEmotionSimulation fires
SimulationTick ==
    /\ mounted = "CameraSim"
    /\ simIntervals > 0
    /\ IF SimTickApplies(streamRef)
       THEN \E draw \in SimulationDraws :
                /\ emotion' = draw.emotion
                /\ engagement' = draw.engagement
                /\ attention' = draw.attention
       ELSE UNCHANGED <<emotion, engagement, attention>>
    /\ op' = "simulation tick"
    /\ UNCHANGED <<nonCamVars, failureToasts, isActive, notified, mediaVars, aiVars, simVars, micVars>>

(***************************************************************************)
(* Camera analyzer with AI detection and a simulated branch:               *)
(* src/unnamed/part_002 (src/unnamed/part_003 has the same handlers)       *)
(***************************************************************************)
\* what the simulated branch of analyzeFrame draws with Math.random()
HybridDraws == { Reading("angry", 70, 80), Reading("surprised", 99, 99) }

\* the button shows Start while the committed isActive is false; it is not
\* disabled while the models load. The handlers of this render close over
\* useAI and modelsReady
HybStartCamera ==
    /\ mounted = "CameraHybrid"
    /\ ~videoMounted
    /\ nextStream < MaxStreams
    /\ nextStream' = nextStream + 1
    /\ starts' = starts \cup {[id |-> nextStream + 1, phase |-> "getUserMedia",
                               ai |-> (useAI /\ modelsReady)]}
    /\ op' = "startCamera"
    /\ UNCHANGED <<nonCamVars, failureToasts, readVars, streamRef, liveStreams, session, aiVars, simVars,
                   micVars>>

\* analyzeFrame with the closure's useAI && modelsReady: returns early without
\* the <video> element or the stream ref, else awaits detectFacialEmotion or
\* applies a simulated draw (at most MaxCalls simulated frames are followed)
analyzeFrame(ai, video, ref) ==
    IF ~video \/ ref = 0
    THEN UNCHANGED <<emotion, engagement, attention, notified, pending, nextCall>>
    ELSE IF ai
    THEN /\ nextCall < MaxCalls
         /\ nextCall' = nextCall + 1
         /\ pending' = pending \cup {[id |-> nextCall + 1, session |-> session]}
         /\ UNCHANGED <<emotion, engagement, attention, notified>>
    ELSE /\ notified < MaxCalls
         /\ \E draw \in HybridDraws :
                /\ emotion' = draw.emotion
                /\ engagement' = draw.engagement
                /\ attention' = draw.attention
         /\ notified' = notified + 1
         /\ UNCHANGED <<pending, nextCall>>

\* getUserMedia resolves: the ref is set only when the <video> element exists;
\* setIsActive(true); startEmotionAnalysis() clears the interval of the ref,
\* registers its own and calls analyzeFrame() at once
HybGetUserMediaResolve(s) ==
    /\ mounted = "CameraHybrid"
    /\ s \in starts /\ s.phase = "getUserMedia"
    /\ liveStreams' = liveStreams \cup {s.id}
    /\ streamRef' = IF videoMounted THEN s.id ELSE streamRef
    /\ isActive' = TRUE
    /\ analysisIntervalRef' = TRUE
    /\ starts' = {t \in starts \ {s} : t.phase # "analysis"} \cup {[s EXCEPT !.phase = "analysis"]}
    /\ analyzeFrame(s.ai, videoMounted, streamRef')
    /\ op' = "startCamera"
    /\ UNCHANGED <<nonCamVars, failureToasts, nextStream, session, useAI, facialModel, audioModel,
                   isLoading, metadataHandler, camEffectPending, simVars, micVars>>

\* the render scheduled by an update made after an await commits
HybRender ==
    /\ mounted = "CameraHybrid"
    /\ videoMounted # isActive
    /\ videoMounted' = isActive
    /\ op' = "render"
    /\ UNCHANGED <<nonCamVars, failureToasts, readVars, mediaVars, aiVars, simIntervals, micVars>>

\* the button shows Stop while the committed isActive is true
HybStopCamera ==
    /\ mounted = "CameraHybrid"
    /\ videoMounted
    /\ analysisIntervalRef' = FALSE
    /\ starts' = {t \in starts : t.phase # "analysis"}
    /\ liveStreams' = liveStreams \ {streamRef}
    /\ streamRef' = 0
    /\ isActive' = FALSE
    /\ emotion' = "neutral"
    /\ engagement' = 0
    /\ attention' = 0
    /\ videoMounted' = FALSE
    /\ session' = session + 1
    /\ op' = "stopCamera"
    /\ UNCHANGED <<nonCamVars, failureToasts, notified, nextStream, useAI, facialModel, audioModel,
                   isLoading, metadataHandler, camEffectPending, pending, nextCall, simIntervals,
                   micVars>>

\* the AI button or switch, disabled while the models load: setUseAI only
HybSetUseAI ==
    /\ mounted = "CameraHybrid"
    /\ ~isLoading
    /\ useAI' = ~useAI
    /\ op' = "setUseAI"
    /\ UNCHANGED <<nonCamVars, failureToasts, readVars, mediaVars, facialModel, audioModel, isLoading,
                   metadataHandler, analysisIntervalRef, camEffectPending, pending, nextCall,
                   simVars, micVars>>

\* the interval of startEmotionAnalysis fires
HybAnalyzeTick ==
    /\ mounted = "CameraHybrid"
    /\ \E s \in starts :
        /\ s.phase = "analysis"
        /\ analyzeFrame(s.ai, videoMounted, streamRef)
    /\ op' = "analyzeFrame"
    /\ UNCHANGED <<nonCamVars, failureToasts, isActive, mediaVars, useAI, facialModel, audioModel,
                   isLoading, metadataHandler, analysisIntervalRef, camEffectPending, simVars,
                   micVars>>

\* the awaited detectFacialEmotion resolves: the rest of analyzeFrame
HybDetectionResolve(c) ==
    /\ mounted = "CameraHybrid"
    /\ c \in pending
    /\ pending' = pending \ {c}
    /\ \E outcome \in DetectOutcomes, draw \in FallbackDraws :
        LET result == detectFacialEmotion(facialModel, outcome, draw)
        IN  /\ IF result # Rejection
               THEN /\ emotion' = result.emotion
                    /\ engagement' = result.engagement
                    /\ attention' = result.attention
                    /\ notified' = notified + 1
               ELSE UNCHANGED <<emotion, engagement, attention, notified>>
            /\ op' = IF result = Rejection THEN "detection error" ELSE "detection result"
    /\ UNCHANGED <<nonCamVars, failureToasts, isActive, mediaVars, useAI, facialModel, audioModel,
                   isLoading, metadataHandler, analysisIntervalRef, camEffectPending, nextCall,
                   simVars, micVars>>

(***************************************************************************)
(* Microphone analyzer: src/src/components/MicrophoneEmotionAnalyzer.tsx   *)
(***************************************************************************)
\* what analyzeVoiceEmotion draws with Math.random()
VoiceDraws == { [emotion |-> "calm", tone |-> "steady", confidence |-> 75],
                [emotion |-> "engaged", tone |-> "dynamic", confidence |-> 94] }

\* the button calls startRecording while isRecording is false
startRecording ==
    /\ mounted = "Microphone"
    /\ ~isRecording
    /\ nextStream < MaxStreams
    /\ nextStream' = nextStream + 1
    /\ starts' = starts \cup {[id |-> nextStream + 1, phase |-> "getUserMedia", ai |-> FALSE]}
    /\ op' = "startRecording"
    /\ UNCHANGED <<nonCamVars, failureToasts, readVars, streamRef, liveStreams, session, aiVars, simVars,
                   micVars>>

\* getUserMedia resolves: new MediaRecorder(stream), start(), setInterval, onstop
MicGetUserMediaResolve(s) ==
    /\ mounted = "Microphone"
    /\ s \in starts /\ s.phase = "getUserMedia"
    /\ starts' = starts \ {s}
    /\ liveStreams' = liveStreams \cup {s.id}
    /\ mediaRecorderRef' = s.id
    /\ recording' = recording \cup {s.id}
    /\ micIntervals' = micIntervals \cup {s.id}
    /\ isRecording' = TRUE
    /\ op' = "startRecording"
    /\ UNCHANGED <<nonCamVars, failureToasts, readVars, streamRef, nextStream, session, aiVars, simVars,
                   confidence, tone, stopEvents>>

\* MediaRecorder.stop() makes the state 'inactive' and queues the stop event
stopRecording ==
    /\ mounted = "Microphone"
    /\ isRecording
    /\ mediaRecorderRef # 0
    /\ recording' = recording \ {mediaRecorderRef}
    /\ stopEvents' = stopEvents \cup {mediaRecorderRef}
    /\ isRecording' = FALSE
    /\ session' = session + 1
    /\ op' = "stopRecording"
    /\ UNCHANGED <<nonCamVars, failureToasts, readVars, streamRef, liveStreams, nextStream, starts, aiVars,
                   simVars, confidence, tone, mediaRecorderRef, micIntervals>>

\* mediaRecorder.onstop: clearInterval(analysisInterval), the tracks are stopped
RecorderOnStop(r) ==
    /\ mounted = "Microphone"
    /\ r \in stopEvents
    /\ stopEvents' = stopEvents \ {r}
    /\ micIntervals' = micIntervals \ {r}
    /\ liveStreams' = liveStreams \ {r}
    /\ op' = "onstop"
    /\ UNCHANGED <<nonCamVars, failureToasts, readVars, streamRef, nextStream, starts, session, aiVars,
                   simVars, isRecording, confidence, tone, mediaRecorderRef, recording>>

\* does an analysis interval callback call analyzeVoiceEmotion?
VoiceTickUnguarded(ref, active) == TRUE

VoiceTickApplies(ref, active) == ref # 0 /\ ref \in active

\* the analysis interval of recorder r fires
AnalysisTick(r) ==
    /\ mounted = "Microphone"
    /\ r \in micIntervals
    /\ IF VoiceTickApplies(mediaRecorderRef, recording)
       THEN \E draw \in VoiceDraws :
                /\ emotion' = draw.emotion
                /\ tone' = draw.tone
                /\ confidence' = draw.confidence
       ELSE UNCHANGED <<emotion, tone, confidence>>
    /\ op' = "analysis tick"
    /\ UNCHANGED <<nonCamVars, failureToasts, isActive, engagement, attention, notified, mediaVars, aiVars,
                   simVars, isRecording, mediaRecorderRef, recording, micIntervals, stopEvents>>

(***************************************************************************)
(* Classification harness: both determineBrainState variants applied to a  *)
(* sample drawn from a grid around the thresholds                          *)
(***************************************************************************)
TestValues == {0, 50, 51, 60, 61, 70, 71, 80, 90, 100}
TestSamples == [Channels -> TestValues]
NoLabels == [anim |-> "unset", dataset |-> "unset"]

Classify ==
    /\ mounted = "classify"
    /\ labels = NoLabels
    /\ labels' = [anim |-> determineBrainState(sample),
                  dataset |-> determineBrainStateDataset(sample)]
    /\ op' = "determineBrainState"
    /\ UNCHANGED <<mounted, sample, generated, eegVars, animVars, dsVars, camVars>>

(***************************************************************************)
(* Generator harness: generateEEGValue (per channel, as animate calls it)  *)
(* and generateRandomEEG applied to base values drawn from a grid          *)
(***************************************************************************)
ClampBases == {-20, 0, 50, 100, 130}
ClampSamples == [Channels -> ClampBases]
NotGenerated == [anim |-> DefaultEEG, random |-> DefaultEEG, done |-> FALSE]

Generate ==
    /\ mounted = "generate"
    /\ ~generated.done
    /\ \E in \in AnimInputs, noise \in RandomInputs :
        generated' = [anim |-> AnimNewData(sample, in),
                      random |-> generateRandomEEG(sample, noise),
                      done |-> TRUE]
    /\ op' = "generate"
    /\ UNCHANGED <<mounted, sample, labels, eegVars, animVars, dsVars, camVars>>

(***************************************************************************)
(* Specification                                                           *)
(***************************************************************************)
Components ==
    {"EEGSimulator", "EEGDataset", "CameraAI", "CameraHybrid", "CameraSim", "Microphone",
     "classify", "generate"}

Init ==
    /\ mounted \in Components
    /\ op = "mount"
    /\ isRunning = FALSE
    /\ eegData = DefaultEEG
    /\ brainState = "Neutral"
    /\ dataBuffers = EmptyBuffers
    /\ produced = <<>>
    /\ animationFrameId = "null"
    /\ animBase = DefaultEEG
    /\ uploadedDataset = <<>>
    /\ mode = "simulated"
    /\ datasetIndex = 0
    /\ uploadStatus = ""
    /\ fileRead = FALSE
    /\ interval = FALSE
    /\ closure = Captured("simulated", <<>>, 0, DefaultEEG)
    /\ effectPending = FALSE
    /\ replayTicks = 0
    /\ isActive = FALSE
    /\ emotion = IF mounted = "Microphone" THEN "null" ELSE "neutral"
    /\ engagement = 0
    /\ attention = 0
    /\ notified = 0
    /\ failureToasts = 0
    /\ streamRef = 0
    /\ liveStreams = {}
    /\ nextStream = 0
    /\ starts = {}
    /\ session = 0
    /\ useAI = TRUE
    /\ facialModel = FALSE
    /\ audioModel = FALSE
    /\ isLoading = (mounted \in {"CameraAI", "CameraHybrid"})
    /\ metadataHandler = 0
    /\ analysisIntervalRef = FALSE
    /\ camEffectPending = FALSE
    /\ pending = {}
    /\ nextCall = 0
    /\ videoMounted = FALSE
    /\ simIntervals = 0
    /\ isRecording = FALSE
    /\ confidence = 0
    /\ tone = "null"
    /\ mediaRecorderRef = 0
    /\ recording = {}
    /\ micIntervals = {}
    /\ stopEvents = {}
    /\ sample \in (IF mounted = "classify" THEN TestSamples
                   ELSE IF mounted = "generate" THEN ClampSamples ELSE {DefaultEEG})
    /\ labels = NoLabels
    /\ generated = NotGenerated

Next ==
    \/ ToggleSimulationOn
    \/ ToggleSimulationOff
    \/ Animate
    \/ resetSimulation
    \/ HandleFileUploadBegin
    \/ HandleFileUploadDone
    \/ toggleMode
    \/ ToggleRunning
    \/ EffectFlush
    \/ IntervalTickDataset
    \/ IntervalTickThrows
    \/ IntervalTickSimulated
    \/ InitModelsDone
    \/ StartCamera
    \/ \E s \in starts : GetUserMediaResolve(s)
    \/ \E s \in starts : GetUserMediaReject(s)
    \/ \E s \in starts : LoadedMetadata(s)
    \/ CamEffectFlush
    \/ stopCamera
    \/ SetUseAI
    \/ DetectionTick
    \/ \E c \in pending : DetectionResolve(c)
    \/ SimStartCamera
    \/ \E s \in starts : SimGetUserMediaResolve(s)
    \/ SimRender
    \/ SimStopCamera
    \/ SimulationTick
    \/ HybStartCamera
    \/ \E s \in starts : HybGetUserMediaResolve(s)
    \/ HybRender
    \/ HybStopCamera
    \/ HybSetUseAI
    \/ HybAnalyzeTick
    \/ \E c \in pending : HybDetectionResolve(c)
    \/ startRecording
    \/ \E s \in starts : MicGetUserMediaResolve(s)
    \/ stopRecording
    \/ \E r \in stopEvents : RecorderOnStop(r)
    \/ \E r \in micIntervals : AnalysisTick(r)
    \/ Classify
    \/ Generate

Spec == Init /\ [][Next]_vars

(***************************************************************************)
(* The dataset variant followed without bound, for progress properties:    *)
(* the ticks of src/unnamed/part_000 with the history variables produced   *)
(* and replayTicks left alone, so that the state space is finite without a *)
(* cap on the number of ticks. The mode switch is left out: a replay       *)
(* session stays in dataset mode.                                          *)
(***************************************************************************)
ReplayTickDataset ==
    /\ mounted = "EEGDataset"
    /\ interval
    /\ closure.mode = "dataset" /\ Len(closure.uploadedDataset) > 0
    /\ closure.datasetIndex < Len(closure.uploadedDataset)
    /\ TickState(DatasetNewData(closure.uploadedDataset[closure.datasetIndex + 1]))
    /\ datasetIndex' = NextIndex(datasetIndex, Len(closure.uploadedDataset))
    /\ op' = "interval"
    /\ UNCHANGED <<mounted, isRunning, produced, replayTicks, animVars, uploadedDataset, mode,
                   uploadStatus, fileRead, interval, closure, camVars, ruleVars>>

ReplayInit == Init /\ mounted = "EEGDataset"

\* a replay session: files are uploaded at any time, Start/Stop is pressed once
\* a dataset is loaded, and the mode is left at 'dataset'
StartStopReplay == mode = "dataset" /\ ToggleRunning

ReplayNext ==
    \/ HandleFileUploadBegin
    \/ HandleFileUploadDone
    \/ StartStopReplay
    \/ EffectFlush
    \/ ReplayTickDataset
    \/ IntervalTickThrows

\* setInterval keeps firing while the interval exists, React runs a pending
\* effect, and the FileReader delivers onload
ReplayFairness ==
    /\ WF_vars(ReplayTickDataset)
    /\ WF_vars(IntervalTickThrows)
    /\ WF_vars(EffectFlush)
    /\ WF_vars(HandleFileUploadDone)

ReplaySpec == ReplayInit /\ [][ReplayNext]_vars /\ ReplayFairness

(***************************************************************************)
(* Claims                                                                  *)
(***************************************************************************)
Capacity == IF mounted = "EEGDataset" THEN datasetBufferLength ELSE maxBufferLength

Readings == <<emotion, engagement, attention>>

\* C1: in the camera analyzer at most one detectFacialEmotion call is
\* unresolved in every reachable state: a tick that fires while a call is
\* pending issues no second call.
C1_AtMostOneInFlight == Cardinality(pending) <= 1

\* C2: once stopCamera has returned, and until the camera is active again, the
\* resolution of a call that was pending at the stop changes neither emotion,
\* engagement, attention nor the number of onEmotionChange invocations.
C2_LateResultDiscarded ==
    [][(mounted = "CameraAI" /\ session > 0 /\ ~isActive /\ ~isActive')
        => (Readings' = Readings /\ notified' = notified)]_vars

\* C3: every channel buffer is never longer than its capacity, whatever
\* sequence of start, tick, stop and reset operations has run.
C3_BufferWithinCapacity == \A ch \in Channels : Len(dataBuffers[ch]) <= Capacity

C3_Witness ==
    /\ mounted = "EEGSimulator"
    /\ op = "toggleSimulation" /\ isRunning
    /\ Len(produced) > maxBufferLength
    /\ \A ch \in Channels : Len(dataBuffers[ch]) = maxBufferLength

\* C4: once more samples than the capacity c have been pushed into buffers
\* that were empty, each channel buffer holds exactly the last c values
\* produced for its channel, oldest first.
C4_FifoEviction ==
    Len(produced) > Capacity =>
        \A ch \in Channels :
            dataBuffers[ch] =
                [i \in 1..Capacity |-> produced[Len(produced) - Capacity + i][ch]]

C4_Witness ==
    /\ mounted = "EEGDataset"
    /\ Len(produced) > datasetBufferLength
    /\ dataBuffers["attention"][1] # dataBuffers["attention"][2]

\* C5 as stated: in every variant of determineBrainState a sample with
\* drowsiness > 70 and attention > 70 is labelled 'Drowsy'.
C5_DrowsyDominatesEveryVariant ==
    (labels # NoLabels /\ sample.drowsiness > 70 /\ sample.attention > 70)
        => (labels.anim = "Drowsy" /\ labels.dataset = "Drowsy")

\* C5 amended: such a sample is labelled 'Drowsy' by the animation-frame
\* variant and 'Highly Focused' by the dataset variant, whose attention > 70
\* rule is declared first.
C5_DrowsyDominatesAnimationVariant ==
    (labels # NoLabels /\ sample.drowsiness > 70 /\ sample.attention > 70)
        => (labels.anim = "Drowsy" /\ labels.dataset = "Highly Focused")

C5_Witness ==
    /\ labels # NoLabels
    /\ sample.drowsiness = 80 /\ sample.attention = 90
    /\ labels.anim = "Drowsy"

\* the rule list of the claim, in declaration order
RuleList ==
    << [channel |-> "drowsiness", threshold |-> 70, label |-> "Drowsy"],
       [channel |-> "attention",  threshold |-> 70, label |-> "Highly Focused"],
       [channel |-> "relaxation", threshold |-> 70, label |-> "Relaxed"],
       [channel |-> "engagement", threshold |-> 70, label |-> "Engaged"],
       [channel |-> "attention",  threshold |-> 50, label |-> "Focused"],
       [channel |-> "relaxation", threshold |-> 50, label |-> "Calm"] >>

Matching(s) == {i \in 1..Len(RuleList) : s[RuleList[i].channel] > RuleList[i].threshold}

FirstMatchLabel(s) ==
    IF Matching(s) = {} THEN "Neutral"
    ELSE RuleList[CHOOSE i \in Matching(s) : \A j \in Matching(s) : i <= j].label

\* C6: determineBrainState of the animation-frame variant returns the label of
\* the first rule of the list whose strict threshold the sample exceeds, and
\* 'Neutral' exactly when the sample exceeds none.
C6_FirstMatchWins ==
    labels # NoLabels =>
        /\ labels.anim = FirstMatchLabel(sample)
        /\ (labels.anim = "Neutral" <=> Matching(sample) = {})

C6_Witness ==
    /\ labels # NoLabels
    /\ sample.drowsiness = 70 /\ sample.attention = 50
    /\ sample.relaxation = 50 /\ sample.engagement = 70
    /\ labels.anim = "Neutral"

ResetState ==
    /\ ~isRunning
    /\ dataBuffers = EmptyBuffers
    /\ eegData = DefaultEEG
    /\ brainState = "Neutral"

\* C7: while a component is stopped (from the return of its stop operation to
\* the next start) no tick changes its sample, label or buffers: in the EEG
\* simulator only resetSimulation changes them, in the simulated camera
\* analyzer and the microphone analyzer nothing does.
C7_StopCancelsTick ==
    [][ /\ (mounted = "EEGSimulator" /\ ~isRunning /\ ~isRunning')
            => \/ <<eegData, brainState, dataBuffers>>' = <<eegData, brainState, dataBuffers>>
               \/ ResetState'
        /\ (mounted = "CameraSim" /\ ~isActive /\ ~isActive') => Readings' = Readings
        /\ (mounted = "Microphone" /\ ~isRecording /\ ~isRecording')
            => <<emotion, tone, confidence>>' = <<emotion, tone, confidence>> ]_vars

C7_Witness ==
    /\ mounted = "EEGSimulator"
    /\ op = "toggleSimulation" /\ ~isRunning
    /\ animationFrameId = "stale"
    /\ Len(produced) >= 2

\* C8: resetSimulation leaves isRunning false, the four buffers empty, eegData
\* at its defaults and the label 'Neutral', and that state lasts until the
\* next start.
C8_ResetRestoresInitialState ==
    /\ [](op = "resetSimulation" => ResetState)
    /\ [][(ResetState /\ ~isRunning') => ResetState']_vars

C8_Witness ==
    /\ mounted = "EEGSimulator"
    /\ op = "resetSimulation"
    /\ animationFrameId = "stale"
    /\ ResetState

\* C9 as stated: every stop operation leaves the last reading unchanged
\* (EEG toggleSimulation off, camera stopCamera, microphone stopRecording).
C9_StopRetainsReading ==
    [][ /\ (mounted = "EEGSimulator" /\ isRunning /\ ~isRunning' /\ ~ResetState')
            => <<eegData, brainState>>' = <<eegData, brainState>>
        /\ (mounted \in {"CameraAI", "CameraSim"} /\ isActive /\ ~isActive')
            => Readings' = Readings
        /\ (mounted = "Microphone" /\ isRecording /\ ~isRecording')
            => <<emotion, tone, confidence>>' = <<emotion, tone, confidence>> ]_vars

\* C9 amended: toggleSimulation off and stopRecording leave the last reading
\* unchanged; stopCamera returns emotion to 'neutral' and engagement and
\* attention to 0; resetSimulation returns eegData and the label to defaults.
C9_StopRetainsReadingExceptCamera ==
    [][ /\ (mounted = "EEGSimulator" /\ isRunning /\ ~isRunning' /\ op' = "toggleSimulation")
            => <<eegData, brainState>>' = <<eegData, brainState>>
        /\ (mounted = "EEGSimulator" /\ op' = "resetSimulation")
            => (eegData' = DefaultEEG /\ brainState' = "Neutral")
        /\ (mounted \in {"CameraAI", "CameraSim"} /\ isActive /\ ~isActive')
            => Readings' = <<"neutral", 0, 0>>
        /\ (mounted = "Microphone" /\ isRecording /\ ~isRecording')
            => <<emotion, tone, confidence>>' = <<emotion, tone, confidence>> ]_vars

C9_Witness ==
    /\ mounted = "CameraAI"
    /\ op = "stopCamera"
    /\ notified > 0
    /\ Readings = <<"neutral", 0, 0>>

\* C10: in dataset mode with n rows loaded and the cursor set to 0, the k-th
\* tick emits rows[(k-1) mod n] and leaves the cursor at k mod n.
C10_CyclicReplay ==
    (mounted = "EEGDataset" /\ mode = "dataset" /\ replayTicks >= 1) =>
        LET n == Len(uploadedDataset)
        IN  /\ eegData = uploadedDataset[((replayTicks - 1) % n) + 1]
            /\ datasetIndex = replayTicks % n

\* C11: every channel value of eegData and every value stored in a channel
\* buffer that is a number lies in [0,100], whichever source produced it.
C11_SampleRange ==
    \A ch \in Channels :
        /\ IsNumber(eegData[ch]) => (0 <= eegData[ch] /\ eegData[ch] <= 100)
        /\ \A i \in 1..Len(dataBuffers[ch]) :
            IsNumber(dataBuffers[ch][i]) => (0 <= dataBuffers[ch][i] /\ dataBuffers[ch][i] <= 100)

InRange(v) == 0 <= v /\ v <= 100

\* C12: for every base value and every draw, generateEEGValue (each channel
\* of animate's newData) and each channel of generateRandomEEG return a value
\* v with 0 <= v <= 100.
C12_ClampProperty ==
    generated.done =>
        \A ch \in Channels : InRange(generated.anim[ch]) /\ InRange(generated.random[ch])

C12_Witness ==
    /\ generated.done
    /\ sample.attention = 130 /\ generated.anim.attention = 100 /\ generated.random.attention = 100
    /\ sample.drowsiness = -20 /\ generated.anim.drowsiness = 0 /\ generated.random.drowsiness = 0
    /\ sample.engagement = 50 /\ generated.random.engagement = 55

\* C13: when a stop operation has completed (stopCamera has returned; the
\* recorder's stop event has been handled after stopRecording) no stream
\* acquired by a start operation remains live.
C13_ScopedAcquisition ==
    /\ (mounted \in {"CameraAI", "CameraSim"} /\ op = "stopCamera") => liveStreams = {}
    /\ (mounted = "Microphone" /\ op = "onstop" /\ ~isRecording /\ stopEvents = {})
        => liveStreams = {}

\* C14: whenever the source of the dataset variant changes (toggleMode, or
\* an upload that switches mode to 'dataset') all channel buffers are empty
\* after the switch.
C14_SwitchSourceClearsBuffers ==
    [][(mounted = "EEGDataset" /\ mode' # mode) => dataBuffers' = EmptyBuffers]_vars

IsReading(r) ==
    /\ r # Rejection
    /\ r.engagement \in 0..100
    /\ r.attention \in 0..100

\* C15: detectFacialEmotion never rejects (without a model, or when the model
\* call throws, it resolves to a fallback reading), so every tick whose call
\* resolves applies a reading and notifies, and its catch branch never runs.
C15_FailuresAbsorbed ==
    /\ [](\A hasModel \in BOOLEAN, outcome \in DetectOutcomes, draw \in FallbackDraws :
            IsReading(detectFacialEmotion(hasModel, outcome, draw)))
    /\ [][\A c \in pending \ pending' :
            /\ op' = "detection result"
            /\ notified' = notified + 1
            /\ IsReading(Reading(emotion', engagement', attention'))]_vars

C15_Witness ==
    /\ mounted = "CameraAI"
    /\ op = "detection result"
    /\ isActive
    /\ Readings = <<"neutral", 70, 75>>

\* C16: a failure transition (initModels ending without both models, or a
\* rejected getUserMedia) raises exactly one failure toast, and no other step
\* (a tick in particular) raises one.
C16_FailureSignalledOnce ==
    [][ /\ (op' = "initModels" /\ ~modelsReady') => failureToasts' = failureToasts + 1
        /\ (op' = "getUserMedia rejected") => failureToasts' = failureToasts + 1
        /\ (failureToasts' # failureToasts)
            => (/\ failureToasts' = failureToasts + 1
                /\ \/ op' = "initModels" /\ ~modelsReady'
                   \/ op' = "getUserMedia rejected") ]_vars

C16_Witness ==
    /\ mounted = "CameraAI"
    /\ ~isLoading /\ ~modelsReady
    /\ op = "getUserMedia rejected"
    /\ failureToasts = 2

\* C17: every row of the accepted dataset (CSV or JSON path) has a value for
\* each of the four channels attention, relaxation, drowsiness, engagement.
C17_AcceptedRowsComplete ==
    \A i \in 1..Len(uploadedDataset) : HasAllChannels(uploadedDataset[i])

Rejected == {"Invalid data format", "Error parsing file"}

\* C18: when handleFileUpload ends with a failure status (zero rows, or
\* parsing threw), uploadedDataset, mode and datasetIndex keep the values they
\* had before: a dataset loaded earlier remains in use.
C18_RejectedUploadUnchanged ==
    [][(op' = "handleFileUpload" /\ fileRead /\ ~fileRead')
        => \/ uploadStatus' = "Loaded"
           \/ /\ uploadStatus' \in Rejected
              /\ <<uploadedDataset, mode, datasetIndex>>' = <<uploadedDataset, mode, datasetIndex>>]_vars

C18_Witness ==
    /\ mounted = "EEGDataset"
    /\ op = "handleFileUpload" /\ ~fileRead
    /\ uploadStatus = "Error parsing file"
    /\ Len(uploadedDataset) = 2 /\ mode = "dataset" /\ datasetIndex = 1

\* C19: the result of a call issued before a stopCamera is never applied to
\* the readings, nor passed to onEmotionChange, once the camera has been
\* started again.
C19_NoLeakIntoLaterSession ==
    [][\A c \in pending \ pending' :
        (mounted = "CameraAI" /\ c.session < session /\ isActive)
            => (Readings' = Readings /\ notified' = notified)]_vars

\* C20: results are applied in the order of the ticks that issued their
\* calls: a call never resolves into the readings after a call issued by a
\* later tick has been applied.
C20_ResultsAppliedInTickOrder ==
    [][\A c \in pending \ pending' :
        \A later \in (c.id + 1)..nextCall :
            \E d \in pending : d.id = later]_vars

\* C21: after any sequence of start, stop and restart operations at most one
\* recurring tick timer is registered per component instance.
C21_OneRecurringTick ==
    /\ simIntervals <= 1
    /\ Cardinality(micIntervals) <= 1

\* C22: in every reachable state at most one acquired capture stream is live.
C22_ExclusiveDevice == Cardinality(liveStreams) <= 1

\* C23: in every reachable state of the EEG simulator (initially, after every
\* tick, after stop, after reset) the displayed brain state is
\* determineBrainState of the current eegData.
C23_LabelConsistency ==
    /\ mounted = "EEGSimulator" => brainState = determineBrainState(eegData)
    /\ mounted = "EEGDataset" => brainState = determineBrainStateDataset(eegData)

C23_Witness ==
    /\ mounted = "EEGSimulator"
    /\ op = "toggleSimulation" /\ ~isRunning
    /\ Len(produced) >= 2
    /\ brainState = "Highly Focused"
    /\ determineBrainState(animBase) # "Highly Focused"

\* C25: a resetSimulation that directly follows a resetSimulation changes
\* nothing: the state is the one the first call left (isRunning false, empty
\* buffers, default eegData, 'Neutral').
C25_ResetIdempotent ==
    [][op' = "resetSimulation again"
        => /\ ResetState /\ ResetState'
           /\ <<isRunning, dataBuffers, produced, eegData, brainState, animationFrameId, animBase>>'
                = <<isRunning, dataBuffers, produced, eegData, brainState, animationFrameId, animBase>>]_vars

C25_Witness ==
    /\ mounted = "EEGSimulator"
    /\ op = "resetSimulation again"
    /\ animationFrameId = "stale"
    /\ animBase # DefaultEEG

\* C27: in every reachable state of the dataset variant, mode = 'dataset'
\* implies that a non-empty dataset is loaded and that
\* 0 <= datasetIndex < uploadedDataset.length.
C27_ReplayCursorValid ==
    (mounted = "EEGDataset" /\ mode = "dataset") =>
        /\ Len(uploadedDataset) > 0
        /\ 0 <= datasetIndex
        /\ datasetIndex < Len(uploadedDataset)

\* C28: the four channel buffers have the same length, the smaller of the
\* number of ticks since they were last empty and the capacity.
C28_BuffersAligned ==
    \A ch \in Channels : Len(dataBuffers[ch]) = Min2(Len(produced), Capacity)

C28_Witness ==
    /\ mounted = "EEGDataset"
    /\ op = "interval"
    /\ Len(produced) = datasetBufferLength + 1
    /\ \A ch \in Channels : Len(dataBuffers[ch]) = datasetBufferLength

\* C24: when getUserMedia rejects at start, the hybrid analyzer keeps a tick
\* timer running, so that later ticks produce readings from the simulated
\* branch.
C24_FallbackKeepsTicking ==
    [][(mounted = "CameraHybrid" /\ op' = "getUserMedia rejected")
        => \E s \in starts' : s.phase = "analysis"]_vars

\* C29: when getUserMedia resolves in startCamera of an analyzer whose
\* <video> element is mounted only while isActive, streamRef holds the
\* stream that was just acquired.
C29_StartedStreamHeld ==
    [][(mounted \in {"CameraSim", "CameraHybrid"} /\ op' = "startCamera"
        /\ liveStreams' # liveStreams)
        => streamRef' \in (liveStreams' \ liveStreams)]_vars

\* C30: a tick that analyzes a frame issues a detectFacialEmotion call when
\* the AI switch is on and the models are ready, and otherwise applies a
\* simulated reading and issues no call.
C30_SwitchTakesEffect ==
    [][(mounted = "CameraHybrid" /\ op' = "analyzeFrame" /\ videoMounted /\ streamRef # 0)
        => IF useAI /\ modelsReady
           THEN nextCall' = nextCall + 1
           ELSE nextCall' = nextCall /\ notified' = notified + 1]_vars

\* C26: when from some point on the simulator stays running in dataset mode
\* with a non-empty dataset and only the timer and the effect act (no
\* further user operation), then under fair timer scheduling rows keep
\* being emitted: again and again a tick emits a row.
Replaying ==
    mounted = "EEGDataset" /\ isRunning /\ mode = "dataset" /\ Len(uploadedDataset) > 0

TimerStep == op \in {"interval", "interval throws", "interval throws again", "useEffect"}

C26_ReplayInfinite == <>[](Replaying /\ TimerStep) => []<>(op = "interval")

====
